---- MODULE Spec2Model ----
(***************************************************************************)
(* Index translation layer of TileDB-Segy: TiledbArrayWrapper,             *)
(* ensure_slice, LabelIndexer (tiledb/segy/utils.py and                    *)
(* tilesegy/indexables.py), TraceIndexer / StructuredTraceIndexer and      *)
(* Lines.  Ordinals and positions are 0-based as in the source; TLA+       *)
(* sequences are 1-based, so At(seq, i) reads position i of a sequence.    *)
(***************************************************************************)
EXTENDS Integers, Sequences, FiniteSets, TLC

(***************************************************************************)
(* Bounds of the model.                                                    *)
(***************************************************************************)
\* labels are drawn from -1 .. MaxLabel
MaxLabel == 2
\* label arrays have 1 .. MaxLen elements (0 .. MaxLen for ensure_slice)
MaxLen == 3
\* elements of the arrays handed to ensure_slice are drawn from 0 .. MaxElem
MaxElem == 3
\* every axis of a generated trace-indexer shape has extent 1 .. MaxDim
MaxDim == 2
\* the array behind TiledbArrayWrapper stores 1 .. MaxData cells
MaxData == 4
\* the largest magnitude of a slice step
MaxStep == 2
MaxCalls == 3

VARIABLES
    wrapped,   \* TiledbArrayWrapper.__wrapped__: the stored 1-D data, or NoObject
    shape,     \* TraceIndexer._shape, or NoObject
    indexer,   \* a LabelIndexer instance (its construction-time tables), or NoObject
    lines,     \* a Lines instance, or NoObject
    call,      \* the last operation invoked and its arguments
    result,    \* what that operation returned or raised
    calls,     \* how many operations have been applied to constructed objects
    data_reads \* how many reads Lines has issued to its data array

vars == <<wrapped, shape, indexer, lines, call, result, calls, data_reads>>

(***************************************************************************)
(* Python values.                                                          *)
(***************************************************************************)
\* Python's None; an optional integer v is <<v>>
None == <<>>
Some(v) == <<v>>
Val(o) == o[1]
NoObject == [constructed |-> FALSE]
NoCall == [op |-> "none"]
Ok(v) == [ok |-> TRUE, value |-> v]
Raise(e) == [ok |-> FALSE, error |-> e]
Slice(a, b, c) == [start |-> a, stop |-> b, step |-> c]
At(seq, i) == seq[i + 1]
Ellipsis == "Ellipsis"

Min(S) == CHOOSE x \in S : \A y \in S : x <= y
Max(S) == CHOOSE x \in S : \A y \in S : x >= y
Elems(seq) == {seq[k] : k \in 1..Len(seq)}

\* the elements of a finite set of integers in ascending order
SortSet(S) ==
    [k \in 1..Cardinality(S) |-> CHOOSE x \in S : Cardinality({y \in S : y < x}) = k - 1]

\* np.unique of a 1-D integer array: its distinct values, ascending
np_unique(seq) == SortSet(Elems(seq))

\* len(range(start, stop, step)) for step # 0
RangeLen(start, stop, step) ==
    IF step > 0
    THEN IF start < stop THEN ((stop - start - 1) \div step) + 1 ELSE 0
    ELSE IF start > stop THEN ((start - stop - 1) \div (0 - step)) + 1 ELSE 0

\* np.arange(start, stop, step) / range(start, stop, step) on integers
np_arange(start, stop, step) ==
    [k \in 1..RangeLen(start, stop, step) |-> start + (k - 1) * step]

\* slice.indices(length) of CPython: <<start, stop, step>>, or ValueError for
\* a zero step or a negative length
slice_indices(s, length) ==
    IF length < 0 THEN Raise("ValueError")
    ELSE IF s.step # None /\ Val(s.step) = 0 THEN Raise("ValueError")
    ELSE LET step == IF s.step = None THEN 1 ELSE Val(s.step)
             lower == IF step < 0 THEN 0 - 1 ELSE 0
             upper == IF step < 0 THEN length - 1 ELSE length
             Clamp(v) == IF v < 0
                         THEN (IF v + length < lower THEN lower ELSE v + length)
                         ELSE (IF v > upper THEN upper ELSE v)
             start == IF s.start = None
                      THEN (IF step < 0 THEN upper ELSE lower)
                      ELSE Clamp(Val(s.start))
             stop == IF s.stop = None
                     THEN (IF step < 0 THEN lower ELSE upper)
                     ELSE Clamp(Val(s.stop))
         IN Ok(<<start, stop, step>>)

\* seq[s] under Python slice semantics, for a slice with a non-zero step
PyGetSlice(seq, s) ==
    LET t == slice_indices(s, Len(seq)).value
        r == np_arange(t[1], t[2], t[3])
    IN [k \in 1..Len(r) |-> At(seq, r[k])]

Reverse(seq) == [k \in 1..Len(seq) |-> seq[Len(seq) + 1 - k]]

(***************************************************************************)
(* TiledbArrayWrapper (utils.py)                                           *)
(***************************************************************************)
\* normalize_slice with the bounds exchanged but not shifted by one
normalize_slice_unshifted(s) ==
    IF s.step = None \/ Val(s.step) > 0 \/ (s.start = None /\ s.stop = None)
    THEN s
    ELSE Slice(s.stop, s.start, s.step)

\* _normalize_slice: a slice with a negative step and a bound given is
\* rewritten to slice(stop + 1, start + 1, step)
normalize_slice(s) ==
    IF s.step = None \/ Val(s.step) > 0 \/ (s.start = None /\ s.stop = None)
    THEN s
    ELSE LET start == IF s.stop # None THEN Some(Val(s.stop) + 1) ELSE None
             stop == IF s.start # None THEN Some(Val(s.start) + 1) ELSE None
         IN Slice(start, stop, s.step)

(***************************************************************************)
(* ensure_slice (utils.py)                                                 *)
(***************************************************************************)
IsIntegerDtype(dtype) == dtype = "int64"

\* a 1-D int64 array holding the sequence data
IntArray(data) == [dtype |-> "int64", ndim |-> 1, data |-> data]

\* _ensure_slice_int
ensure_slice_int(i) == Ok(Slice(Some(i), Some(i + 1), None))

\* ensure_slice_array with the stop always one past the last element
ensure_slice_array_stop_above(a) ==
    IF ~IsIntegerDtype(a.dtype) THEN Raise("ValueError")
    ELSE IF a.ndim > 1 THEN Raise("ValueError")
    ELSE IF a.ndim = 1 /\ Len(a.data) = 0 THEN Raise("ValueError")
    ELSE IF a.ndim = 0 \/ Len(a.data) = 1 THEN ensure_slice_int(a.data[1])
    ELSE LET n == Len(a.data)
             diffs == [k \in 1..(n - 1) |-> a.data[k + 1] - a.data[k]]
             unique_diffs == np_unique(diffs)
         IN IF ~((\A k \in 1..(n - 1) : diffs[k] > 0) \/ (\A k \in 1..(n - 1) : diffs[k] < 0))
            THEN Raise("ValueError")
            ELSE IF Len(unique_diffs) > 1 THEN Raise("MultiSliceError")
            ELSE Ok(Slice(Some(a.data[1]), Some(a.data[n] + 1), Some(unique_diffs[1])))

\* ensure_slice_array with the test for equal differences made before the
\* test for monotonicity
ensure_slice_array_spacing_first(a) ==
    IF ~IsIntegerDtype(a.dtype) THEN Raise("ValueError")
    ELSE IF a.ndim > 1 THEN Raise("ValueError")
    ELSE IF a.ndim = 1 /\ Len(a.data) = 0 THEN Raise("ValueError")
    ELSE IF a.ndim = 0 \/ Len(a.data) = 1 THEN ensure_slice_int(a.data[1])
    ELSE LET n == Len(a.data)
             diffs == [k \in 1..(n - 1) |-> a.data[k + 1] - a.data[k]]
             unique_diffs == np_unique(diffs)
         IN IF Len(unique_diffs) > 1 THEN Raise("MultiSliceError")
            ELSE IF unique_diffs[1] = 0 THEN Raise("ValueError")
            ELSE LET step == unique_diffs[1]
                 IN Ok(Slice(Some(a.data[1]),
                             Some(a.data[n] + (IF step > 0 THEN 1 ELSE 0 - 1)),
                             Some(step)))

\* _ensure_slice_array
ensure_slice_array(a) ==
    IF ~IsIntegerDtype(a.dtype) THEN Raise("ValueError")
    ELSE IF a.ndim > 1 THEN Raise("ValueError")
    ELSE IF a.ndim = 1 /\ Len(a.data) = 0 THEN Raise("ValueError")
    ELSE IF a.ndim = 0 \/ Len(a.data) = 1 THEN ensure_slice_int(a.data[1])
    ELSE LET n == Len(a.data)
             diffs == [k \in 1..(n - 1) |-> a.data[k + 1] - a.data[k]]
             unique_diffs == np_unique(diffs)
         IN IF ~((\A k \in 1..(n - 1) : diffs[k] > 0) \/ (\A k \in 1..(n - 1) : diffs[k] < 0))
            THEN Raise("ValueError")
            ELSE IF Len(unique_diffs) > 1 THEN Raise("MultiSliceError")
            ELSE LET start == a.data[1]
                     step == unique_diffs[1]
                     stop == a.data[n] + (IF step > 0 THEN 1 ELSE 0 - 1)
                 IN Ok(Slice(Some(start), Some(stop), Some(step)))

(***************************************************************************)
(* LabelIndexer (utils.py and indexables.py)                               *)
(***************************************************************************)
\* labels.argsort() for unique labels: the 0-based positions by ascending label
argsort(data) ==
    LET sorted == SortSet(Elems(data))
    IN [k \in 1..Len(sorted) |-> (CHOOSE p \in 1..Len(data) : data[p] = sorted[k]) - 1]

\* the rank of label among the sorted labels instead of its position
flatnonzero_eq_rank(label, data) ==
    SortSet({Cardinality({q \in 1..Len(data) : data[q] < label}) :
                p \in {q \in 1..Len(data) : data[q] = label}})

\* np.flatnonzero(label == labels): the 0-based positions holding label, ascending
flatnonzero_eq(label, data) == SortSet({p - 1 : p \in {q \in 1..Len(data) : data[q] = label}})

\* labels.searchsorted(v, sorter=sorter), side left: the number of labels below
\* v in the order that sorter gives
searchsorted(data, v, sorter) ==
    Cardinality({k \in 1..Len(sorter) : At(data, sorter[k]) < v})

\* the elements of seq at the positions k with keep[k], in order
Filter(seq, keep) ==
    LET kept == SortSet({k \in 1..Len(seq) : keep[k]})
    IN [j \in 1..Len(kept) |-> seq[kept[j]]]

\* LabelIndexer.__init__ without the test for duplicates
LabelIndexer_init_no_duplicate_test(impl, labels) ==
    IF ~IsIntegerDtype(labels.dtype) THEN Raise("ValueError")
    ELSE IF Len(labels.data) = 0 THEN Raise("ValueError")
    ELSE Ok([constructed |-> TRUE,
             impl |-> impl,
             labels |-> labels.data,
             min_label |-> Min(Elems(labels.data)),
             max_label |-> Max(Elems(labels.data)) + 1,
             sorter |-> [k \in 1..Len(labels.data) |-> k - 1]])

\* LabelIndexer.__init__ of either module: impl is "utils" or "indexables"
LabelIndexer_init(impl, labels) ==
    IF ~IsIntegerDtype(labels.dtype) THEN Raise("ValueError")
    ELSE IF Cardinality(Elems(labels.data)) # Len(labels.data) THEN Raise("ValueError")
    ELSE IF Len(labels.data) = 0 THEN Raise("ValueError")
    ELSE Ok([constructed |-> TRUE,
             impl |-> impl,
             labels |-> labels.data,
             min_label |-> Min(Elems(labels.data)),
             max_label |-> Max(Elems(labels.data)) + 1,
             sorter |-> argsort(labels.data)])

\* LabelIndexer._get_one (utils.py) and LabelIndexer.__getitem__ (indexables.py)
LabelIndexer_get_one(self, label) ==
    LET indices == flatnonzero_eq(label, self.labels)
    IN IF Len(indices) > 1 THEN Raise("AssertionError")
       ELSE IF Len(indices) = 0 THEN Raise("ValueError")
       ELSE Ok(indices[1])

\* the first lines shared by _label_slice_to_indices and _get_slice: the bounds
\* after clamping an open or low bound to the minimum label
clamp_label_slice(self, label_slice) ==
    LET step == label_slice.step
        min_label == self.min_label
    IN IF step = None \/ Val(step) > 0
       THEN IF label_slice.start = None \/ Val(label_slice.start) < min_label
            THEN Slice(Some(min_label), label_slice.stop, step)
            ELSE label_slice
       ELSE IF label_slice.stop = None \/ Val(label_slice.stop) < min_label - 1
            THEN Slice(label_slice.start, Some(min_label - 1), step)
            ELSE label_slice

\* lines 141-144 of _label_slice_to_indices: each candidate label is searched
\* into the sorted labels and the candidates that are absent are dropped
present_indices(self, label_range) ==
    LET n == Len(label_range)
        pos == [k \in 1..n |-> searchsorted(self.labels, label_range[k], self.sorter)]
        indices == [k \in 1..n |-> At(self.sorter, pos[k])]
        keep == [k \in 1..n |-> At(self.labels, indices[k]) = label_range[k]]
    IN IF \E k \in 1..n : pos[k] >= Len(self.sorter) THEN Raise("IndexError")
       ELSE Ok(Filter(indices, keep))

\* line 140 of _label_slice_to_indices: t is slice(...).indices(max_label)
indices_of_range(self, t) ==
    IF ~t.ok THEN t ELSE present_indices(self, np_arange(t.value[1], t.value[2], t.value[3]))

\* LabelIndexer._label_slice_to_indices: the ordinals of the candidate labels
\* that are present, in the order the candidates are enumerated
label_slice_to_indices(self, label_slice) ==
    indices_of_range(self, slice_indices(clamp_label_slice(self, label_slice), self.max_label))

\* line 140 of _label_slice_to_indices (line 197 of _get_slice): the candidate
\* labels that are searched, in order
label_range(self, label_slice) ==
    LET t == slice_indices(clamp_label_slice(self, label_slice), self.max_label)
    IN IF ~t.ok THEN t ELSE Ok(np_arange(t.value[1], t.value[2], t.value[3]))

\* every failure e reported as MultiSliceError
as_multi_slice_error(e) == IF ~e.ok THEN Raise("MultiSliceError") ELSE e

\* ensure_slice of the ordinals with every failure reported as MultiSliceError
ensure_slice_indices_one_error(r) ==
    IF ~r.ok THEN r ELSE as_multi_slice_error(ensure_slice_array(IntArray(r.value)))

\* ensure_slice applied to the outcome r of _label_slice_to_indices
ensure_slice_indices(r) == IF ~r.ok THEN r ELSE ensure_slice_array(IntArray(r.value))

\* LabelIndexer._get_many (utils.py)
utils_get_many(self, label_slice) ==
    ensure_slice_indices(label_slice_to_indices(self, label_slice))

\* slice_of_indices without the comparison of the ordinals with the range of
\* the slice
slice_of_indices_unchecked(r) ==
    IF ~r.ok THEN r
    ELSE IF Len(r.value) = 0 THEN Raise("ValueError")
    ELSE Ok(Slice(Some(r.value[1]),
                  Some(r.value[Len(r.value)]
                        + (IF Len(r.value) = 1 \/ r.value[2] > r.value[1] THEN 1 ELSE 0 - 1)),
                  Some(IF Len(r.value) > 1 THEN r.value[2] - r.value[1] ELSE 1)))

\* lines 202-213 of _get_slice: the slice that the ordinals r form.  The
\* comparison of np.arange(...) with indices raises when the two lengths
\* cannot be broadcast; which error that is depends on the numpy in use
\* ("ShapeMismatch", see Outcomes).
slice_of_indices(r) ==
    IF ~r.ok THEN r
    ELSE IF Len(r.value) = 0 THEN Raise("ValueError")
    ELSE LET indices == r.value
             n == Len(indices)
             start == indices[1]
             step == IF n > 1 THEN indices[2] - start ELSE 1
             stop == indices[n] + (IF step > 0 THEN 1 ELSE 0 - 1)
             rng == np_arange(start, stop, step)
         IN IF Len(rng) = n
            THEN IF \E k \in 1..n : rng[k] # indices[k]
                 THEN Raise("ValueError")
                 ELSE Ok(Slice(Some(start), Some(stop), Some(step)))
            ELSE IF Len(rng) = 1
            THEN IF \E k \in 1..n : rng[1] # indices[k]
                 THEN Raise("ValueError")
                 ELSE Ok(Slice(Some(start), Some(stop), Some(step)))
            ELSE Raise("ShapeMismatch")

\* LabelIndexer._get_slice (indexables.py); its lines 188-201 are those of
\* _label_slice_to_indices
indexables_get_slice(self, label_slice) ==
    slice_of_indices(label_slice_to_indices(self, label_slice))

\* what a caller can observe of an outcome: a comparison of arrays whose shapes
\* do not broadcast raises ValueError, or yields a bool without .any()
\* (AttributeError), depending on the numpy version
Outcomes(r) ==
    IF ~r.ok /\ r.error = "ShapeMismatch"
    THEN {Raise("ValueError"), Raise("AttributeError")}
    ELSE {r}

\* singledispatch of LabelIndexer.__getitem__ (utils.py) on the index type
utils_getitem(self, i) ==
    IF i.kind = "int" THEN LabelIndexer_get_one(self, i.v)
    ELSE IF i.kind = "slice" THEN utils_get_many(self, i.s)
    ELSE Raise("TypeError")

\* singledispatch of LabelIndexer.__getitem__ (indexables.py): slices go to
\* _get_slice, every other index to the scalar lookup
indexables_getitem(self, i) ==
    IF i.kind = "slice" THEN indexables_get_slice(self, i.s)
    ELSE LabelIndexer_get_one(self, i.v)

(***************************************************************************)
(* TraceIndexer / StructuredTraceIndexer (utils.py)                        *)
(***************************************************************************)
RECURSIVE Prod(_)
Prod(seq) == IF Len(seq) = 0 THEN 1 ELSE Head(seq) * Prod(Tail(seq))

\* the sub-sequence seq[a .. Len(seq)]
Suffix(seq, a) == [k \in 1..(Len(seq) - a + 1) |-> seq[a + k - 1]]

\* TraceIndexer.__len__
TraceIndexer_len(self_shape) == Prod(self_shape)

\* the sub-sequence seq[1 .. b]
Prefix(seq, b) == [k \in 1..b |-> seq[k]]

\* unravel in column-major (Fortran) order: the first axis varies fastest
unravel_column_major(i, dims) ==
    [k \in 1..Len(dims) |-> (i \div Prod(Prefix(dims, k - 1))) % dims[k]]

\* np.unravel_index(i, dims) in C order, for 0 <= i < prod(dims)
unravel(i, dims) ==
    [k \in 1..Len(dims) |-> (i \div Prod(Suffix(dims, k + 1))) % dims[k]]

\* np.unravel_index(i, dims): ValueError for an index outside the array
unravel_index(i, dims) ==
    IF i < 0 \/ i >= Prod(dims) THEN Raise("ValueError") ELSE Ok(unravel(i, dims))

\* TraceIndexer.__getitem__: the index itself and "select everything"
TraceIndexer_getitem(self_shape, trace_index) == Ok(<<(<<trace_index>>), Ellipsis>>)

\* StructuredTraceIndexer._get_one
StructuredTraceIndexer_get_one(self_shape, trace_index) ==
    LET c == unravel_index(trace_index, self_shape)
    IN IF ~c.ok THEN c ELSE Ok(<<c.value, Ellipsis>>)

\* StructuredTraceIndexer._get_many
StructuredTraceIndexer_get_many(self_shape, trace_index) ==
    LET t == slice_indices(trace_index, TraceIndexer_len(self_shape))
    IN IF ~t.ok THEN t
       ELSE LET raveled_indices == np_arange(t.value[1], t.value[2], t.value[3])
                nd == Len(self_shape)
                points == {unravel(raveled_indices[k], self_shape) : k \in 1..Len(raveled_indices)}
                unique_unraveled_indices == [a \in 1..nd |-> SortSet({pt[a] : pt \in points})]
                boxes == [a \in 1..nd |-> ensure_slice_array(IntArray(unique_unraveled_indices[a]))]
                lens == [a \in 1..nd |-> Len(unique_unraveled_indices[a])]
                Point(i) == LET c == unravel(i, lens)
                            IN [a \in 1..nd |-> At(unique_unraveled_indices[a], c[a])]
                post_reshape_indices ==
                    SortSet({i \in 0..(Prod(lens) - 1) : Point(i) \in points})
            IN IF \E a \in 1..nd : ~boxes[a].ok
               THEN boxes[Min({a \in 1..nd : ~boxes[a].ok})]
               ELSE Ok(<<[a \in 1..nd |-> boxes[a].value], post_reshape_indices>>)

\* singledispatch of StructuredTraceIndexer.__getitem__ on the index type
StructuredTraceIndexer_getitem(self_shape, i) ==
    IF i.kind = "int" THEN StructuredTraceIndexer_get_one(self_shape, i.v)
    ELSE IF i.kind = "slice" THEN StructuredTraceIndexer_get_many(self_shape, i.s)
    ELSE Raise("TypeError")

(***************************************************************************)
(* Lines (indexables.py)                                                   *)
(***************************************************************************)
IntIndex(v) == [kind |-> "int", v |-> v]
SliceIndex(s) == [kind |-> "slice", s |-> s]
OtherIndex == [kind |-> "other"]
FullSlice == Slice(None, None, None)

\* Lines.__init__; schema is the order of the dimension names of the data array
Lines_init(dim_name, labels, offsets, schema) ==
    LET label_indexer == LabelIndexer_init("indexables", labels)
        offset_indexer == LabelIndexer_init("indexables", offsets)
    IN IF ~label_indexer.ok THEN label_indexer
       ELSE IF ~offset_indexer.ok THEN offset_indexer
       ELSE Ok([constructed |-> TRUE,
                dim_name |-> dim_name,
                label_indexer |-> label_indexer.value,
                offset_indexer |-> offset_indexer.value,
                default_offset |-> offsets.data[1],
                schema |-> schema])

\* Lines._offsets_axis
offsets_axis == 1

\* Lines._labels_axis: the position of the dimension named dim_name
labels_axis(self) == Min({a \in 0..(Len(self.schema) - 1) : At(self.schema, a) = self.dim_name})

\* ndarray.swapaxes on the sequence of the axes of an array; a negative
\* axis counts from the end
swapaxes(axes, a, b) ==
    LET pa == IF a < 0 THEN a + Len(axes) ELSE a
        pb == IF b < 0 THEN b + Len(axes) ELSE b
    IN [k \in 1..Len(axes) |->
            IF k = pa + 1 THEN At(axes, pb) ELSE IF k = pb + 1 THEN At(axes, pa) ELSE axes[k]]

\* the backend read self._data[composite_index]: the physical axes that the
\* result keeps, in physical order (an axis indexed by a scalar is dropped)
backend_axes(composite_index) ==
    SortSet({a \in 0..(Len(composite_index) - 1) : At(composite_index, a).kind = "slice"})

\* major_axis with the shift for a dropped axis applied also when no axis
\* is dropped
major_axis_always_shifted(multi_labels, multi_offsets, la, oa) ==
    IF multi_labels THEN la - (IF la > oa THEN 1 ELSE 0)
    ELSE IF multi_offsets THEN oa - (IF oa > la THEN 1 ELSE 0)
    ELSE 0

\* the axis that Lines.__getitem__ moves to the front
major_axis(multi_labels, multi_offsets, la, oa) ==
    IF multi_labels /\ multi_offsets THEN la
    ELSE IF multi_labels THEN la - (IF la > oa THEN 1 ELSE 0)
    ELSE IF multi_offsets THEN oa - (IF oa > la THEN 1 ELSE 0)
    ELSE 0

\* lines 127-155 of Lines.__getitem__, once both sub-indices are resolved
\* to label_indices and offset_indices.  The data returned is described by
\* the composite index read and by the order of its axes, each named by its
\* physical position.  A sub-index resolves to a slice exactly when it is one.
Lines_read(self, labels, offsets, label_indices, offset_indices) ==
    LET multi_labels == labels.kind = "slice"
        multi_offsets == offsets.kind = "slice"
        la == labels_axis(self)
        composite_index ==
            [k \in 1..4 |->
                IF k = offsets_axis + 1
                THEN (IF multi_offsets THEN SliceIndex(offset_indices.value)
                                       ELSE IntIndex(offset_indices.value))
                ELSE IF k = la + 1
                THEN (IF multi_labels THEN SliceIndex(label_indices.value)
                                      ELSE IntIndex(label_indices.value))
                ELSE SliceIndex(FullSlice)]
        data == backend_axes(composite_index)
        major == major_axis(multi_labels, multi_offsets, la, offsets_axis)
        moved == IF major > 0 THEN swapaxes(data, 0, major) ELSE data
        final == IF self.dim_name = "samples" /\ multi_labels
                 THEN swapaxes(moved, 0 - 1, 0 - 2)
                 ELSE moved
    IN IF ~label_indices.ok THEN label_indices
       ELSE IF ~offset_indices.ok THEN offset_indices
       ELSE Ok([index |-> composite_index, axes |-> final])

\* the offsets of a call: those given, or the default offset
Lines_offsets(self, i) == IF i.tuple THEN i.offsets ELSE IntIndex(self.default_offset)

\* Lines.__getitem__; i is a pair (labels, offsets) or the labels alone
Lines_getitem(self, i) ==
    Lines_read(self, i.labels, Lines_offsets(self, i),
               indexables_getitem(self.label_indexer, i.labels),
               indexables_getitem(self.offset_indexer, Lines_offsets(self, i)))

(***************************************************************************)
(* Inputs                                                                  *)
(***************************************************************************)
Opt(S) == {None} \cup {Some(v) : v \in S}
Steps == Opt((0 - MaxStep)..MaxStep)
SlicesOver(S) == {Slice(a, b, c) : a \in Opt(S), b \in Opt(S), c \in Steps}
SeqsUpTo(S, n) == UNION {[1..m -> S] : m \in 0..n}
Array(dtype, ndim, data) == [dtype |-> dtype, ndim |-> ndim, data |-> data]

\* the data stored behind the wrapper: ascending values, distinct from positions
StoredData == {[k \in 1..n |-> 100 + (k - 1)] : n \in 1..MaxData}
WrapperIndexArgs(data) ==
    {SliceIndex(s) : s \in SlicesOver(0..(Len(data) - 1))}
        \cup {IntIndex(v) : v \in 0..(Len(data) - 1)}

\* what ensure_slice is applied to
EnsureArrayArgs ==
    {Array(dt, 1, d) : dt \in {"int64", "float64"}, d \in SeqsUpTo(0..MaxElem, MaxLen)}
        \cup {Array(dt, 0, <<v>>) : dt \in {"int64", "float64"}, v \in 0..MaxElem}
        \cup {Array(dt, 2, d) : dt \in {"int64", "float64"}, d \in SeqsUpTo(0..MaxElem, 1)}
EnsureArgs ==
    {[kind |-> "array", a |-> a] : a \in EnsureArrayArgs}
        \cup {IntIndex(v) : v \in 0..MaxElem}
        \cup {SliceIndex(s) : s \in SlicesOver({0, MaxElem})}
        \cup {OtherIndex}

\* label arrays: every array over the label domain, and the arrays of the
\* documented scenarios
LabelDomain == (0 - 1)..MaxLabel
ScenarioLabels == {<<10, 20, 30, 40, 50>>, <<10, 20, 40, 50>>, <<0, 1, 0 - 1, 2>>}
LabelArrayArgs ==
    {Array(dt, 1, d) : dt \in {"int64", "float64"}, d \in SeqsUpTo(LabelDomain, MaxLen)}
        \cup {Array("int64", 1, d) : d \in ScenarioLabels}
ScenarioSlices == {Slice(Some(15), Some(45), None), Slice(Some(10), Some(51), None)}
LabelIndexArgs ==
    {IntIndex(v) : v \in (0 - 2)..(MaxLabel + 1)}
        \cup {SliceIndex(s) : s \in SlicesOver((0 - 2)..(MaxLabel + 1)) \cup ScenarioSlices}

\* trace indexer shapes: every 3-axis shape up to MaxDim, and the shapes of
\* the documented scenarios
ScenarioShapes == {<<4, 3, 2>>, <<2, 4, 1>>}
ShapeArgs == [1..3 -> 1..MaxDim] \cup ScenarioShapes
TraceIndexArgs(self_shape) ==
    {IntIndex(v) : v \in (0 - 1)..Prod(self_shape)}
        \cup {SliceIndex(s) : s \in SlicesOver((0 - 1)..Prod(self_shape))}
        \cup {OtherIndex}

\* Lines: the data array has four dimensions, the offsets at position 1
DimNames == {"ilines", "xlines", "samples"}
SchemaArgs ==
    {s \in [1..4 -> DimNames \cup {"offsets"}] :
        /\ s[2] = "offsets"
        /\ \A a, b \in 1..4 : a # b => s[a] # s[b]}
LinesLabelArgs == {Array("int64", 1, d) : d \in {<<1, 2, 3>>, <<0, 2, 1>>}}
LinesOffsetArgs == {Array("int64", 1, d) : d \in {<<1>>, <<1, 2>>}}
LinesSubIndexArgs ==
    {IntIndex(v) : v \in 0..3}
        \cup {SliceIndex(Slice(a, b, c)) : a \in Opt({1}), b \in Opt({3}), c \in Opt({0 - 1, 2})}
LinesIndexArgs ==
    {[tuple |-> FALSE, labels |-> l] : l \in LinesSubIndexArgs}
        \cup {[tuple |-> TRUE, labels |-> l, offsets |-> o] :
                l \in LinesSubIndexArgs, o \in LinesSubIndexArgs}

(***************************************************************************)
(* State machine                                                           *)
(***************************************************************************)
Init ==
    /\ wrapped = NoObject
    /\ shape = NoObject
    /\ indexer = NoObject
    /\ lines = NoObject
    /\ call = NoCall
    /\ result = Ok(None)
    /\ calls = 0
    /\ data_reads = 0

Call(op, args) == [op |-> op, args |-> args]

\* one more operation is applied
Applied == calls < MaxCalls /\ calls' = calls + 1

\* TiledbArrayWrapper(array)
TiledbArrayWrapperInit(data) ==
    /\ ~wrapped.constructed
    /\ wrapped' = [constructed |-> TRUE, data |-> data]
    /\ call' = Call("TiledbArrayWrapper", data)
    /\ result' = Ok(None)
    /\ UNCHANGED <<shape, indexer, lines, calls, data_reads>>

\* singledispatch of TiledbArrayWrapper._normalize_index on the index type
normalize_index(i) == IF i.kind = "slice" THEN SliceIndex(normalize_slice(i.s)) ELSE i

\* TiledbArrayWrapper.__getitem__: the result is the index that is handed to
\* the wrapped array
TiledbArrayWrapperGetItem(i) ==
    /\ wrapped.constructed
    /\ call' = Call("TiledbArrayWrapper.__getitem__", i)
    /\ result' = Ok(normalize_index(i))
    /\ Applied
    /\ UNCHANGED <<wrapped, shape, indexer, lines, data_reads>>

\* singledispatch of ensure_slice on the type of its argument
ensure_slice(obj) ==
    IF obj.kind = "slice" THEN Ok(obj.s)
    ELSE IF obj.kind = "int" THEN ensure_slice_int(obj.v)
    ELSE IF obj.kind = "array" THEN ensure_slice_array(obj.a)
    ELSE Raise("TypeError")

\* ensure_slice(obj)
EnsureSlice(obj) ==
    /\ call' = Call("ensure_slice", obj)
    /\ result' = ensure_slice(obj)
    /\ Applied
    /\ UNCHANGED <<wrapped, shape, indexer, lines, data_reads>>

\* LabelIndexer(labels), of utils.py or of indexables.py
LabelIndexerInit(impl, labels) ==
    /\ ~indexer.constructed
    /\ LET r == LabelIndexer_init(impl, labels)
       IN /\ indexer' = IF r.ok THEN r.value ELSE NoObject
          /\ result' = IF r.ok THEN Ok(None) ELSE r
    /\ call' = Call("LabelIndexer", <<impl, labels>>)
    /\ UNCHANGED <<wrapped, shape, lines, calls, data_reads>>

\* LabelIndexer.__getitem__ (utils.py) that keeps the start of a label slice
\* as the minimum label of the indexer
UtilsLabelIndexerGetItem_keeping_start(i) ==
    /\ indexer.constructed
    /\ indexer.impl = "utils"
    /\ call' = Call("utils.LabelIndexer.__getitem__", i)
    /\ result' \in Outcomes(utils_getitem(indexer, i))
    /\ indexer' = IF i.kind = "slice" /\ i.s.start # None
                  THEN [indexer EXCEPT !.min_label = Val(i.s.start)]
                  ELSE indexer
    /\ Applied
    /\ UNCHANGED <<wrapped, shape, lines, data_reads>>

\* LabelIndexer.__getitem__ (utils.py)
UtilsLabelIndexerGetItem(i) ==
    /\ indexer.constructed
    /\ indexer.impl = "utils"
    /\ call' = Call("utils.LabelIndexer.__getitem__", i)
    /\ result' \in Outcomes(utils_getitem(indexer, i))
    /\ Applied
    /\ UNCHANGED <<wrapped, shape, indexer, lines, data_reads>>

\* LabelIndexer.__getitem__ (indexables.py)
IndexablesLabelIndexerGetItem(i) ==
    /\ indexer.constructed
    /\ indexer.impl = "indexables"
    /\ call' = Call("indexables.LabelIndexer.__getitem__", i)
    /\ result' \in Outcomes(indexables_getitem(indexer, i))
    /\ Applied
    /\ UNCHANGED <<wrapped, shape, indexer, lines, data_reads>>

\* TraceIndexer(shape) or StructuredTraceIndexer(shape)
TraceIndexerInit(class, self_shape) ==
    /\ ~shape.constructed
    /\ shape' = [constructed |-> TRUE, class |-> class, shape |-> self_shape]
    /\ call' = Call(class, self_shape)
    /\ result' = Ok(None)
    /\ UNCHANGED <<wrapped, indexer, lines, calls, data_reads>>

\* TraceIndexer.__getitem__
TraceIndexerGetItem(i) ==
    /\ shape.constructed
    /\ shape.class = "TraceIndexer"
    /\ call' = Call("TraceIndexer.__getitem__", i)
    /\ result' = TraceIndexer_getitem(shape.shape, i)
    /\ Applied
    /\ UNCHANGED <<wrapped, shape, indexer, lines, data_reads>>

\* StructuredTraceIndexer.__getitem__
StructuredTraceIndexerGetItem(i) ==
    /\ shape.constructed
    /\ shape.class = "StructuredTraceIndexer"
    /\ call' = Call("StructuredTraceIndexer.__getitem__", i)
    /\ result' = StructuredTraceIndexer_getitem(shape.shape, i)
    /\ Applied
    /\ UNCHANGED <<wrapped, shape, indexer, lines, data_reads>>

\* Lines(dim_name, labels, offsets, data, headers)
LinesInit(dim_name, labels, offsets, schema) ==
    /\ ~lines.constructed
    /\ LET r == Lines_init(dim_name, labels, offsets, schema)
       IN /\ lines' = IF r.ok THEN r.value ELSE NoObject
          /\ result' = IF r.ok THEN Ok(None) ELSE r
    /\ call' = Call("Lines", <<dim_name, labels, offsets, schema>>)
    /\ UNCHANGED <<wrapped, shape, indexer, calls, data_reads>>

\* Lines.__getitem__ that reads the data array before resolving its sub-indices
LinesGetItem_reading_first(i) ==
    /\ lines.constructed
    /\ call' = Call("Lines.__getitem__", i)
    /\ result' \in Outcomes(Lines_getitem(lines, i))
    /\ data_reads' = data_reads + 1
    /\ Applied
    /\ UNCHANGED <<wrapped, shape, indexer, lines>>

\* Lines.__getitem__: the data array is read once both sub-indices are
\* resolved, at line 136
LinesGetItem(i) ==
    /\ lines.constructed
    /\ call' = Call("Lines.__getitem__", i)
    /\ \E r \in Outcomes(Lines_getitem(lines, i)) :
            /\ result' = r
            /\ data_reads' = data_reads + (IF r.ok THEN 1 ELSE 0)
    /\ Applied
    /\ UNCHANGED <<wrapped, shape, indexer, lines>>

\* nothing has been called yet
New == call = NoCall
\* no operation has been applied to the constructed object yet
First == call.op \in {"TiledbArrayWrapper", "LabelIndexer", "TraceIndexer",
                      "StructuredTraceIndexer", "Lines"}

(***************************************************************************)
(* One object is constructed and one operation is applied to it.           *)
(***************************************************************************)
NextWrapper ==
    \/ New /\ \E d \in StoredData : TiledbArrayWrapperInit(d)
    \/ /\ wrapped.constructed
       /\ First
       /\ \E i \in WrapperIndexArgs(wrapped.data) : TiledbArrayWrapperGetItem(i)
SpecWrapper == Init /\ [][NextWrapper]_vars

NextEnsure == New /\ \E obj \in EnsureArgs : EnsureSlice(obj)
SpecEnsure == Init /\ [][NextEnsure]_vars

NextLabel ==
    \/ New /\ \E impl \in {"utils", "indexables"}, labels \in LabelArrayArgs :
                LabelIndexerInit(impl, labels)
    \/ First /\ \E i \in LabelIndexArgs \cup {OtherIndex} : UtilsLabelIndexerGetItem(i)
    \/ First /\ \E i \in LabelIndexArgs : IndexablesLabelIndexerGetItem(i)
SpecLabel == Init /\ [][NextLabel]_vars

NextTrace ==
    \/ New /\ \E class \in {"TraceIndexer", "StructuredTraceIndexer"}, s \in ShapeArgs :
                TraceIndexerInit(class, s)
    \/ /\ shape.constructed
       /\ First
       /\ \E i \in TraceIndexArgs(shape.shape) : TraceIndexerGetItem(i)
    \/ /\ shape.constructed
       /\ First
       /\ \E i \in TraceIndexArgs(shape.shape) : StructuredTraceIndexerGetItem(i)
SpecTrace == Init /\ [][NextTrace]_vars

NextLines ==
    \/ New /\ \E d \in DimNames, l \in LinesLabelArgs, o \in LinesOffsetArgs, s \in SchemaArgs :
                LinesInit(d, l, o, s)
    \/ First /\ \E i \in LinesIndexArgs : LinesGetItem(i)
SpecLines == Init /\ [][NextLines]_vars

(***************************************************************************)
(* Objects of every class are constructed and operations are applied to    *)
(* them repeatedly, in any order.                                          *)
(***************************************************************************)
SomeStoredData == {<<100, 101, 102>>}
SomeWrapperIndexArgs == {IntIndex(1), SliceIndex(Slice(Some(2), Some(0), Some(0 - 1)))}
SomeEnsureArgs ==
    {IntIndex(1), [kind |-> "array", a |-> IntArray(<<0, 1, 3>>)],
     [kind |-> "array", a |-> IntArray(<<2, 1, 0>>)]}
SomeLabelArrayArgs == {IntArray(<<10, 20, 40, 50>>), IntArray(<<2, 0, 1>>), IntArray(<<1, 1>>)}
SomeLabelIndexArgs ==
    {IntIndex(0), IntIndex(7),
     SliceIndex(FullSlice),
     SliceIndex(Slice(Some(10), Some(51), None)),
     SliceIndex(Slice(Some(1), None, None)),
     SliceIndex(Slice(None, None, Some(0 - 1))),
     SliceIndex(Slice(Some(0), None, Some(2)))}
SomeShapeArgs == {<<4, 3, 2>>}
SomeTraceIndexArgs ==
    {IntIndex(3), SliceIndex(Slice(Some(2), Some(9), None)),
     SliceIndex(Slice(None, None, Some(0 - 2))), OtherIndex}
SomeSchemaArgs == {<<"ilines", "offsets", "xlines", "samples">>}
SomeLinesIndexArgs ==
    {[tuple |-> FALSE, labels |-> IntIndex(2)],
     [tuple |-> FALSE, labels |-> IntIndex(7)],
     [tuple |-> FALSE, labels |-> SliceIndex(FullSlice)],
     [tuple |-> FALSE, labels |-> SliceIndex(Slice(Some(1), Some(1), None))],
     [tuple |-> TRUE, labels |-> SliceIndex(FullSlice), offsets |-> SliceIndex(FullSlice)],
     [tuple |-> TRUE, labels |-> IntIndex(1), offsets |-> IntIndex(3)]}

Next ==
    \/ /\ ~wrapped.constructed
       /\ \E d \in SomeStoredData : TiledbArrayWrapperInit(d)
    \/ /\ wrapped.constructed
       /\ \E i \in SomeWrapperIndexArgs : TiledbArrayWrapperGetItem(i)
    \/ \E obj \in SomeEnsureArgs : EnsureSlice(obj)
    \/ \E impl \in {"utils", "indexables"}, labels \in SomeLabelArrayArgs :
            LabelIndexerInit(impl, labels)
    \/ \E i \in SomeLabelIndexArgs \cup {OtherIndex} : UtilsLabelIndexerGetItem(i)
    \/ \E i \in SomeLabelIndexArgs : IndexablesLabelIndexerGetItem(i)
    \/ \E class \in {"TraceIndexer", "StructuredTraceIndexer"}, s \in SomeShapeArgs :
            TraceIndexerInit(class, s)
    \/ \E i \in SomeTraceIndexArgs : TraceIndexerGetItem(i)
    \/ \E i \in SomeTraceIndexArgs : StructuredTraceIndexerGetItem(i)
    \/ \E d \in {"ilines", "samples"}, s \in SomeSchemaArgs :
            LinesInit(d, IntArray(<<1, 2, 3>>), IntArray(<<1, 2>>), s)
    \/ \E i \in SomeLinesIndexArgs : LinesGetItem(i)
Spec == Init /\ [][Next]_vars

(***************************************************************************)
(* Claims about TraceIndexer / StructuredTraceIndexer (SpecTrace)          *)
(***************************************************************************)
RECURSIVE RavelFrom(_, _, _)
RavelFrom(coords, dims, k) ==
    IF k > Len(dims) THEN 0
    ELSE coords[k] * Prod(Suffix(dims, k + 1)) + RavelFrom(coords, dims, k + 1)
\* the row-major (C order) flat index of the cell coords of an array of shape dims
Ravel(coords, dims) == RavelFrom(coords, dims, 1)

\* the positions 0 .. n-1 of an axis of extent n
Positions(n) == [k \in 1..n |-> k - 1]

StructuredCall(kind) ==
    /\ call.op = "StructuredTraceIndexer.__getitem__"
    /\ call.args.kind = kind

\* C9: for every flat index i with 0 <= i < prod(S), StructuredTraceIndexer[i]
\* returns (coords, Ellipsis) with one coordinate per axis, each within its
\* extent, whose row-major ravel against S is i.
C9_ScalarUnravelsToFlatIndex ==
    (StructuredCall("int") /\ call.args.v >= 0 /\ call.args.v < Prod(shape.shape))
        => /\ result.ok
           /\ result.value[2] = Ellipsis
           /\ Len(result.value[1]) = Len(shape.shape)
           /\ \A a \in 1..Len(shape.shape) :
                result.value[1][a] >= 0 /\ result.value[1][a] < shape.shape[a]
           /\ Ravel(result.value[1], shape.shape) = call.args.v

C9_Witness ==
    /\ StructuredCall("int")
    /\ shape.shape = <<4, 3, 2>>
    /\ call.args.v = 17
    /\ result = Ok(<<(<<2, 2, 1>>), Ellipsis>>)

\* the flat indices that the slice s selects among 0 .. n-1, in the order
\* that s enumerates them
SelectedFlat(s, n) == PyGetSlice(Positions(n), s)

\* the read of the bounding box, flattened in C order; each cell of the
\* storage holds its own flat index
BoxRead(bounding_box, dims) ==
    LET nd == Len(dims)
        sel == [a \in 1..nd |-> PyGetSlice(Positions(dims[a]), bounding_box[a])]
        lens == [a \in 1..nd |-> Len(sel[a])]
    IN [j \in 1..Prod(lens) |->
            LET c == unravel(j - 1, lens)
            IN Ravel([a \in 1..nd |-> At(sel[a], c[a])], dims)]

Gather(read, recipe) == [k \in 1..Len(recipe) |-> At(read, recipe[k])]

\* C1: whenever StructuredTraceIndexer[s] returns (bounding_box, recipe) for a
\* slice s, the recipe has as many positions as s selects flat indices, and
\* gathering them from the flattened bounding-box read gives the data of the
\* selected flat indices in the order s enumerates them.
C1_RecipeReproducesSelection ==
    (StructuredCall("slice") /\ result.ok)
        => /\ Len(result.value[2]) = Len(SelectedFlat(call.args.s, Prod(shape.shape)))
           /\ \A k \in 1..Len(result.value[2]) :
                result.value[2][k] < Len(BoxRead(result.value[1], shape.shape))
           /\ Gather(BoxRead(result.value[1], shape.shape), result.value[2])
                = SelectedFlat(call.args.s, Prod(shape.shape))

\* C1, the documented scenario: shape (4,3,2) and slice(2,9) give a recipe of
\* 7 positions selecting the flat ordinals 2..8 in order
C1_Scenario ==
    (StructuredCall("slice") /\ shape.shape = <<4, 3, 2>>
        /\ call.args.s = Slice(Some(2), Some(9), None))
        => /\ result.ok
           /\ Len(result.value[2]) = 7
           /\ Gather(BoxRead(result.value[1], shape.shape), result.value[2])
                = <<2, 3, 4, 5, 6, 7, 8>>

\* the ordinals that an ordinal slice with both bounds given enumerates
OrdinalsOf(s) ==
    np_arange(Val(s.start), Val(s.stop), IF s.step = None THEN 1 ELSE Val(s.step))

\* the coordinates along one axis that a slice of a bounding box covers
Covered(box_slice) == Elems(OrdinalsOf(box_slice))

\* the bounding box has one slice per axis and every cell that s selects lies
\* in the cartesian product of those slices
Encloses(bounding_box, s, dims) ==
    /\ Len(bounding_box) = Len(dims)
    /\ \A k \in 1..Len(SelectedFlat(s, Prod(dims))) :
         \A a \in 1..Len(dims) :
            unravel(SelectedFlat(s, Prod(dims))[k], dims)[a] \in Covered(bounding_box[a])

\* a slice that Python accepts: its step is not 0
ValidStep(s) == s.step = None \/ Val(s.step) # 0

\* C11: for every shape and every slice over the flat trace indices (any
\* non-zero step, also a slice that selects nothing), StructuredTraceIndexer
\* returns without raising, and the bounding box returned has one slice per
\* axis whose cartesian product contains every cell that the slice selects.
C11_BoundingBoxAlwaysReturned ==
    (StructuredCall("slice") /\ ValidStep(call.args.s))
        => /\ result.ok
           /\ Encloses(result.value[1], call.args.s, shape.shape)

\* what holds of C11: a bounding box that is returned encloses the selection
C11_ReturnedBoxEncloses ==
    (StructuredCall("slice") /\ result.ok)
        => Encloses(result.value[1], call.args.s, shape.shape)

(***************************************************************************)
(* Claims about TiledbArrayWrapper (SpecWrapper)                           *)
(***************************************************************************)
NegativeStepRead ==
    /\ call.op = "TiledbArrayWrapper.__getitem__"
    /\ call.args.kind = "slice"
    /\ call.args.s.step # None
    /\ Val(call.args.s.step) < 0

\* C2 as stated: reading the ascending range of the normalised slice with
\* stride |step| and reversing the result gives the data at the positions
\* that the slice enumerates with its own step.
C2_StridedReadReversed ==
    NegativeStepRead
        => LET n == result.value.s
               ascending == Slice(n.start, n.stop, Some(0 - Val(n.step)))
           IN Reverse(PyGetSlice(wrapped.data, ascending))
                = PyGetSlice(wrapped.data, call.args.s)

\* C2 as amended: reading the contiguous ascending range [start, stop) of the
\* normalised slice and then applying the retained negative step to what was
\* read (result[::step]) gives the data at the positions that the slice
\* enumerates with its own step.
C2_ContiguousReadThenStep ==
    NegativeStepRead
        => LET n == result.value.s
               read == PyGetSlice(wrapped.data, Slice(n.start, n.stop, None))
           IN PyGetSlice(read, Slice(None, None, n.step))
                = PyGetSlice(wrapped.data, call.args.s)

C2_Witness ==
    /\ NegativeStepRead
    /\ wrapped.data = <<100, 101, 102, 103>>
    /\ call.args.s = Slice(Some(3), Some(0), Some(0 - 2))
    /\ result.value = SliceIndex(Slice(Some(1), Some(4), Some(0 - 2)))

(***************************************************************************)
(* Claims about ensure_slice (SpecEnsure)                                  *)
(***************************************************************************)
EnsureArrayCall == call.op = "ensure_slice" /\ call.args.kind = "array"

Diffs(data) == [k \in 1..(Len(data) - 1) |-> data[k + 1] - data[k]]
StrictlyMonotonic(data) ==
    \/ \A k \in 1..(Len(data) - 1) : data[k + 1] > data[k]
    \/ \A k \in 1..(Len(data) - 1) : data[k + 1] < data[k]
EqualDiffs(data) == \A k \in 1..(Len(data) - 1) : Diffs(data)[k] = Diffs(data)[1]

\* a 1-D integer array of length >= 2 with a constant non-zero difference
ArithmeticProgression(a) ==
    /\ a.dtype = "int64"
    /\ a.ndim = 1
    /\ Len(a.data) >= 2
    /\ Diffs(a.data)[1] # 0
    /\ EqualDiffs(a.data)

Sign(d) == IF d > 0 THEN 1 ELSE 0 - 1

\* the slice that C3 says ensure_slice returns for the progression data
ProgressionSlice(data) ==
    Slice(Some(data[1]),
          Some(data[Len(data)] + Sign(Diffs(data)[1])),
          Some(Diffs(data)[1]))

\* the extents of a stored axis that holds every position of data
AxisExtents(data) == {Max(Elems(data)) + 1, Max(Elems(data)) + 2}

\* C3 as stated: for every arithmetic progression A, ensure_slice(A) is
\* slice(A[0], A[-1] + sign(d), d), and that slice selects the positions
\* A[0], A[1], ..., A[-1] in order under Python slice semantics.
C3_SliceSelectsProgression ==
    (EnsureArrayCall /\ ArithmeticProgression(call.args.a))
        => /\ result = Ok(ProgressionSlice(call.args.a.data))
           /\ \A n \in AxisExtents(call.args.a.data) :
                PyGetSlice(Positions(n), result.value) = call.args.a.data

\* C3 as amended: ensure_slice(A) is slice(A[0], A[-1] + sign(d), d); that
\* slice selects the positions of A in order under Python slice semantics
\* unless A descends to 0, and in every case (the stop is -1 when A descends
\* to 0) the positions of A are what TiledbArrayWrapper's normalisation of
\* the slice reads: the range [stop + 1, start + 1) with the step applied to
\* what was read.
C3_SliceOfProgression ==
    (EnsureArrayCall /\ ArithmeticProgression(call.args.a))
        => LET data == call.args.a.data
               down_to_zero == Diffs(data)[1] < 0 /\ data[Len(data)] = 0
               n == normalize_slice(result.value)
           IN /\ result = Ok(ProgressionSlice(data))
              /\ \A e \in AxisExtents(data) :
                    /\ ~down_to_zero => PyGetSlice(Positions(e), result.value) = data
                    /\ Val(n.step) < 0 =>
                        PyGetSlice(PyGetSlice(Positions(e), Slice(n.start, n.stop, None)),
                                   Slice(None, None, n.step)) = data

C3_Witness ==
    /\ EnsureArrayCall
    /\ call.args.a = IntArray(<<2, 1, 0>>)
    /\ result = Ok(Slice(Some(2), Some(0 - 1), Some(0 - 1)))

\* C8: a strictly monotonic 1-D integer array of length >= 2 whose differences
\* are not all equal fails with MultiSliceError; a non-monotonic, non-integer,
\* multi-dimensional or empty array fails with a ValueError that is not a
\* MultiSliceError.
C8_IrregularSpacingIsDistinctError ==
    EnsureArrayCall
        => LET a == call.args.a
               plain == a.dtype = "int64" /\ a.ndim = 1 /\ Len(a.data) >= 2
           IN /\ (plain /\ StrictlyMonotonic(a.data) /\ ~EqualDiffs(a.data))
                    => result = Raise("MultiSliceError")
              /\ (plain /\ ~StrictlyMonotonic(a.data)) => result = Raise("ValueError")
              /\ a.dtype # "int64" => result = Raise("ValueError")
              /\ a.ndim > 1 => result = Raise("ValueError")
              /\ (a.ndim = 1 /\ Len(a.data) = 0) => result = Raise("ValueError")

C8_Witness ==
    /\ EnsureArrayCall
    /\ call.args.a = IntArray(<<0, 1, 3>>)
    /\ result = Raise("MultiSliceError")

(***************************************************************************)
(* Claims about LabelIndexer (SpecLabel)                                   *)
(***************************************************************************)
LabelIndexerCall ==
    call.op \in {"utils.LabelIndexer.__getitem__", "indexables.LabelIndexer.__getitem__"}
LabelRangeCall == LabelIndexerCall /\ call.args.kind = "slice"
LabelScalarCall == LabelIndexerCall /\ call.args.kind = "int"

\* the 0-based position of label c in labels
PositionOf(labels, c) == (CHOOSE p \in 1..Len(labels) : labels[p] = c) - 1

\* the labels start, start + step, ... up to but excluding stop; an open bound
\* is the end of the label space on that side
CandidateLabels(labels, s) ==
    LET step == IF s.step = None THEN 1 ELSE Val(s.step)
        lowest == Min(Elems(labels))
        highest == Max(Elems(labels))
    IN IF step > 0
       THEN np_arange(IF s.start = None THEN lowest ELSE Val(s.start),
                      IF s.stop = None THEN highest + 1 ELSE Val(s.stop), step)
       ELSE np_arange(IF s.start = None THEN highest ELSE Val(s.start),
                      IF s.stop = None THEN lowest - 1 ELSE Val(s.stop), step)

\* the positions of the candidate labels that are present, in candidate order
SelectedPositions(labels, s) ==
    LET candidates == CandidateLabels(labels, s)
        present == Filter(candidates, [k \in 1..Len(candidates) |-> candidates[k] \in Elems(labels)])
    IN [k \in 1..Len(present) |-> PositionOf(labels, present[k])]

\* C4: whenever a range lookup succeeds, the returned ordinal slice enumerates
\* exactly the positions of the labels start, start + step, ... (excluding
\* stop) that are present in L, in that order.
C4_RangeLookupEnumeratesSelectedLabels ==
    (LabelRangeCall /\ result.ok)
        => OrdinalsOf(result.value) = SelectedPositions(indexer.labels, call.args.s)

\* the two documented instances of C4
C4_Scenario ==
    /\ (/\ call.op = "indexables.LabelIndexer.__getitem__"
        /\ indexer.labels = <<10, 20, 30, 40, 50>>
        /\ call.args = SliceIndex(Slice(Some(15), Some(45), None)))
            => result = Ok(Slice(Some(1), Some(4), Some(1)))
    /\ (/\ call.op = "indexables.LabelIndexer.__getitem__"
        /\ indexer.labels = <<10, 20, 40, 50>>
        /\ call.args = SliceIndex(Slice(Some(10), Some(51), None)))
            => result = Ok(Slice(Some(0), Some(4), Some(1)))

\* a bound of s is open, or below the minimum label on the side that is
\* clamped
HasOpenBound(labels, s) ==
    LET lowest == Min(Elems(labels))
    IN \/ s.start = None
       \/ s.stop = None
       \/ (s.step = None \/ Val(s.step) > 0) /\ Val(s.start) < lowest
       \/ (s.step # None /\ Val(s.step) < 0) /\ Val(s.stop) < lowest

\* s with its open (or below-minimum) bounds replaced by the ends of the
\* domain of the labels
DomainBounds(labels, s) ==
    LET lowest == Min(Elems(labels))
        highest == Max(Elems(labels))
    IN IF s.step = None \/ Val(s.step) > 0
       THEN Slice(IF s.start = None \/ Val(s.start) < lowest THEN Some(lowest) ELSE s.start,
                  IF s.stop = None THEN Some(highest + 1) ELSE s.stop,
                  s.step)
       ELSE Slice(IF s.start = None THEN Some(highest) ELSE s.start,
                  IF s.stop = None \/ Val(s.stop) < lowest THEN Some(lowest - 1) ELSE s.stop,
                  s.step)

\* the labels of the domain [min label, max label] that s enumerates once its
\* open bounds are the ends of the domain
DomainCandidates(labels, s) ==
    LET candidates == CandidateLabels(labels, DomainBounds(labels, s))
    IN Filter(candidates,
              [k \in 1..Len(candidates) |->
                    /\ candidates[k] >= Min(Elems(labels))
                    /\ candidates[k] <= Max(Elems(labels))])

\* C12: in a range lookup with an open (or below-minimum) bound, the candidate
\* labels that are enumerated are those of the slice whose open bounds are the
\* ends of the label domain (minimum label, max label + 1; for a negative
\* step maximum label, min label - 1), none of them outside
\* [min label, max label], whatever the minimum label is.
C12_OpenBoundsAreDomainEnds ==
    (LabelRangeCall /\ ValidStep(call.args.s) /\ HasOpenBound(indexer.labels, call.args.s))
        => /\ label_range(indexer, call.args.s).ok
           /\ label_range(indexer, call.args.s).value
                = DomainCandidates(indexer.labels, call.args.s)

\* what holds of C12: the same, for labels that are all positive and a slice
\* whose given bounds are not negative and whose given start, when the step is
\* negative, is not above the maximum label
C12_OpenBoundsOfPositiveLabels ==
    (/\ LabelRangeCall /\ ValidStep(call.args.s)
     /\ HasOpenBound(indexer.labels, call.args.s)
     /\ Min(Elems(indexer.labels)) > 0
     /\ call.args.s.start # None => Val(call.args.s.start) >= 0
     /\ call.args.s.stop # None => Val(call.args.s.stop) >= 0
     /\ (call.args.s.start # None /\ call.args.s.step # None /\ Val(call.args.s.step) < 0)
            => Val(call.args.s.start) <= Max(Elems(indexer.labels)))
        => /\ label_range(indexer, call.args.s).ok
           /\ label_range(indexer, call.args.s).value
                = DomainCandidates(indexer.labels, call.args.s)

UtilsRangeCall ==
    /\ call.op = "utils.LabelIndexer.__getitem__"
    /\ call.args.kind = "slice"
    /\ ValidStep(call.args.s)

\* the ordinals form a single arithmetic progression: one ordinal, or two or
\* more with a constant non-zero difference
SingleProgression(ordinals) ==
    /\ Len(ordinals) >= 1
    /\ Len(ordinals) >= 2 => (Diffs(ordinals)[1] # 0 /\ EqualDiffs(ordinals))

\* C13 as stated: a range lookup of the utils LabelIndexer succeeds when the
\* resolved ordinals are a non-empty single arithmetic progression, fails with
\* MultiSliceError when they are non-empty and not a single progression (the
\* non-monotonic ordinals of unsorted labels included), and fails with another
\* error when they are empty.
C13_NonProgressionIsMultiSliceError ==
    UtilsRangeCall
        => LET r == label_slice_to_indices(indexer, call.args.s)
           IN /\ r.ok
              /\ SingleProgression(r.value) => result.ok
              /\ (Len(r.value) >= 1 /\ ~SingleProgression(r.value))
                    => result = Raise("MultiSliceError")
              /\ Len(r.value) = 0 => (~result.ok /\ result.error # "MultiSliceError")

\* C13 as amended: the lookup succeeds, with the slice of the progression,
\* when the resolved ordinals are a non-empty single arithmetic progression;
\* it fails with MultiSliceError when they are strictly monotonic and unevenly
\* spaced; it fails with a plain ValueError when they are not monotonic
\* (unsorted labels) and when they are empty.
C13_LookupRangeOutcomes ==
    UtilsRangeCall
        => LET r == label_slice_to_indices(indexer, call.args.s)
           IN /\ r.ok
              /\ Len(r.value) = 1
                    => result = Ok(Slice(Some(r.value[1]), Some(r.value[1] + 1), None))
              /\ (Len(r.value) >= 2 /\ SingleProgression(r.value))
                    => result = Ok(ProgressionSlice(r.value))
              /\ (Len(r.value) >= 2 /\ StrictlyMonotonic(r.value) /\ ~EqualDiffs(r.value))
                    => result = Raise("MultiSliceError")
              /\ (Len(r.value) >= 2 /\ ~StrictlyMonotonic(r.value))
                    => result = Raise("ValueError")
              /\ Len(r.value) = 0 => result = Raise("ValueError")

C13_Witness ==
    /\ UtilsRangeCall
    /\ indexer.labels = <<0, 2, 1>>
    /\ call.args.s = FullSlice
    /\ label_slice_to_indices(indexer, call.args.s) = Ok(<<0, 2, 1>>)
    /\ result = Raise("ValueError")

\* the other failure of C13: ordinals that are monotonic and unevenly spaced
C13_Irregular ==
    /\ UtilsRangeCall
    /\ indexer.labels = <<0, 1, 0 - 1, 2>>
    /\ label_slice_to_indices(indexer, call.args.s) = Ok(<<0, 1, 3>>)
    /\ result = Raise("MultiSliceError")

\* the outcome of the same lookup in the other implementation
OtherImplementation ==
    IF call.op = "utils.LabelIndexer.__getitem__"
    THEN indexables_getitem(indexer, call.args)
    ELSE utils_getitem(indexer, call.args)

StepOf(s) == IF s.step = None THEN 1 ELSE Val(s.step)

C6_ScalarLookupReturnsPosition ==
    LabelScalarCall
        => LET labels == indexer.labels
               v == call.args.v
           IN IF v \in Elems(labels)
              THEN /\ result.ok
                   /\ At(labels, result.value) = v
                   /\ \A p \in 0..(Len(labels) - 1) : At(labels, p) = v => p = result.value
              ELSE result = Raise("ValueError")

C6_Witness ==
    /\ LabelScalarCall
    /\ indexer.labels = <<0, 1, 0 - 1, 2>>
    /\ call.args.v = 0 - 1
    /\ result = Ok(2)

HasRepeatedValue(data) == \E p, q \in 1..Len(data) : p # q /\ data[p] = data[q]

\* C7: constructing a LabelIndexer from an array with a repeated value or a
\* non-integer dtype raises and leaves no indexer; constructing it from a
\* non-empty array of unique integers succeeds.
C7_ConstructionRejectsInvalidLabels ==
    call.op = "LabelIndexer"
        => LET labels == call.args[2]
           IN /\ (HasRepeatedValue(labels.data) \/ labels.dtype # "int64")
                    => ~result.ok /\ indexer = NoObject
              /\ (/\ labels.dtype = "int64"
                  /\ Len(labels.data) > 0
                  /\ ~HasRepeatedValue(labels.data))
                    => /\ result = Ok(None)
                       /\ indexer.constructed
                       /\ indexer.labels = labels.data

C7_Witness ==
    /\ call.op = "LabelIndexer"
    /\ call.args[2] = Array("int64", 1, <<1, 2, 1>>)
    /\ result = Raise("ValueError")
    /\ indexer = NoObject

(***************************************************************************)
(* Claims about Lines (SpecLines)                                          *)
(***************************************************************************)
LinesRead == call.op = "Lines.__getitem__" /\ result.ok

\* the sub-index of the offsets in a call: given, or the scalar default
OffsetsOf(i) == IF i.tuple THEN i.offsets.kind ELSE "int"

\* seq with the elements x and y exchanged
Exchange(seq, x, y) ==
    [k \in 1..Len(seq) |-> IF seq[k] = x THEN y ELSE IF seq[k] = y THEN x ELSE seq[k]]

\* the kept physical axes in ascending order with the axis named first moved
\* to the front by one exchange, and the last two exchanged when last_swapped
TransposedAxes(kept, first, last_swapped) ==
    LET moved == Exchange(kept, kept[1], first)
        n == Len(moved)
    IN IF last_swapped THEN Exchange(moved, moved[n - 1], moved[n]) ELSE moved

\* C5: a Lines read returns the axes that were not selected by a scalar, the
\* label axis first if the labels are a range, then the offsets axis if the
\* offsets are a range, then the remaining axes; over "samples" with a range
\* of labels the last two axes are exchanged in addition.
C5_AxisOrder ==
    LinesRead
        => LET la == labels_axis(lines)
               multi_labels == call.args.labels.kind = "slice"
               multi_offsets == OffsetsOf(call.args) = "slice"
               kept == SortSet((0..3) \ ((IF multi_labels THEN {} ELSE {la})
                                          \cup (IF multi_offsets THEN {} ELSE {1})))
               axes == result.value.axes
               first == IF multi_labels THEN la ELSE IF multi_offsets THEN 1 ELSE kept[1]
           IN /\ Len(axes) = Len(kept)
              /\ Elems(axes) = Elems(kept)
              /\ multi_labels => axes[1] = la
              /\ multi_offsets => axes[IF multi_labels THEN 2 ELSE 1] = 1
              /\ axes = TransposedAxes(kept, first,
                                       lines.dim_name = "samples" /\ multi_labels)

C5_Witness ==
    /\ LinesRead
    /\ lines.dim_name = "samples"
    /\ labels_axis(lines) = 3
    /\ call.args.labels.kind = "slice"
    /\ OffsetsOf(call.args) = "int"
    /\ result.value.axes = <<3, 0, 2>>

(***************************************************************************)
(* Claims about repeated operations (Spec)                                 *)
(***************************************************************************)
\* a LabelIndexer constructed anew from the labels of self
FreshLabelIndexer(self) == LabelIndexer_init(self.impl, IntArray(self.labels)).value

\* a Lines object constructed anew from what self was constructed from
FreshLines(self) ==
    Lines_init(self.dim_name, IntArray(self.label_indexer.labels),
               IntArray(self.offset_indexer.labels), self.schema).value

Resolutions ==
    {"utils.LabelIndexer.__getitem__", "indexables.LabelIndexer.__getitem__",
     "TraceIndexer.__getitem__", "StructuredTraceIndexer.__getitem__", "Lines.__getitem__"}

\* what the query c can give as the first call on new instances of the objects
FirstCallOutcomes(c, an_indexer, a_shape, a_lines) ==
    IF c.op = "utils.LabelIndexer.__getitem__"
    THEN Outcomes(utils_getitem(FreshLabelIndexer(an_indexer), c.args))
    ELSE IF c.op = "indexables.LabelIndexer.__getitem__"
    THEN Outcomes(indexables_getitem(FreshLabelIndexer(an_indexer), c.args))
    ELSE IF c.op = "TraceIndexer.__getitem__"
    THEN {TraceIndexer_getitem(a_shape.shape, c.args)}
    ELSE IF c.op = "StructuredTraceIndexer.__getitem__"
    THEN {StructuredTraceIndexer_getitem(a_shape.shape, c.args)}
    ELSE Outcomes(Lines_getitem(FreshLines(a_lines), c.args))

\* C10: no step changes a constructed indexer (labels, minimum label,
\* exclusive maximum label, sort permutation, shape), and every resolution,
\* whatever was called before it, gives what it gives as the first call on a
\* newly constructed instance.
C10_ResolutionsKeepNoState ==
    [][/\ indexer.constructed => indexer' = indexer
       /\ shape.constructed => shape' = shape
       /\ lines.constructed => lines' = lines
       /\ call'.op \in Resolutions
            => result' \in FirstCallOutcomes(call', indexer', shape', lines')]_vars

C10_Witness ==
    /\ calls >= 2
    /\ call.op = "utils.LabelIndexer.__getitem__"
    /\ call.args = SliceIndex(FullSlice)
    /\ result.ok
    /\ indexer = FreshLabelIndexer(indexer)
    /\ shape.constructed
    /\ lines.constructed

\* the entry of a composite index for a sub-index that resolved to resolved
Selector(sub_index, resolved) ==
    IF sub_index.kind = "slice" THEN SliceIndex(resolved) ELSE IntIndex(resolved)

\* the read of a successful call: the resolved label and offset ordinals in
\* their slots, every other axis fully open
ReadsResolved(self, i, label_indices, offset_indices, composite_index) ==
    /\ Len(composite_index) = 4
    /\ \A a \in 0..3 :
         At(composite_index, a)
            = IF a = offsets_axis THEN Selector(Lines_offsets(self, i), offset_indices)
              ELSE IF a = labels_axis(self) THEN Selector(i.labels, label_indices)
              ELSE SliceIndex(FullSlice)

\* a call of Lines.__getitem__ whose sub-indices resolve to label_indices and
\* offset_indices: what it raises or returns, and the reads it issues
ResolvedThenRead(self, i, label_indices, offset_indices) ==
    /\ ~label_indices.ok
         => (result' \in Outcomes(label_indices) /\ data_reads' = data_reads)
    /\ (label_indices.ok /\ ~offset_indices.ok)
         => (result' \in Outcomes(offset_indices) /\ data_reads' = data_reads)
    /\ (label_indices.ok /\ offset_indices.ok)
         => /\ result'.ok
            /\ data_reads' = data_reads + 1
            /\ ReadsResolved(self, i, label_indices.value, offset_indices.value,
                             result'.value.index)

\* C14: a call of Lines.__getitem__ whose label or offset resolution fails
\* raises that error and issues no read of the data array; a call whose two
\* resolutions succeed issues exactly one read, of the composite index built
\* from the two resolved ordinals; no other operation reads the data array.
C14_ReadAfterBothResolved ==
    [][IF call'.op = "Lines.__getitem__"
       THEN ResolvedThenRead(lines, call'.args,
                indexables_getitem(lines.label_indexer, call'.args.labels),
                indexables_getitem(lines.offset_indexer, Lines_offsets(lines, call'.args)))
       ELSE data_reads' = data_reads]_vars

C14_Witness ==
    /\ call.op = "Lines.__getitem__"
    /\ ~result.ok
    /\ calls = 2
    /\ data_reads = 1

====
